---- MODULE Spec2Model ----
(***************************************************************************)
(* Flight ticket service: the ticket model (models/ticket.go), the HTTP    *)
(* handlers (handlers/ticket.go) and the Firestore service                 *)
(* (services/firestore.go) as a state machine over the document store.     *)
(*                                                                         *)
(* Go strings that the code inspects character by character are sequences  *)
(* of one-character strings (<<"J","F","K">> is "JFK", <<>> is "").  The   *)
(* status field, which the code only compares for equality, is a string.   *)
(* A time.Time holding a calendar value is a record [y, m, d, hh, mm]; the *)
(* instants read from time.Now() are clock ticks (integers).               *)
(***************************************************************************)
EXTENDS Integers, Sequences, FiniteSets, Bags, TLC

\* store, clock, inflight: the collection, the wall clock, the requests being
\* handled.  nreq, last, cancels, lastWrite record what has happened: the
\* requests admitted, the response written by the step just taken, the ids of
\* the cancels answered 200 (with their number), and for each document the
\* write Firestore applied to it last.  call is a direct call of a
\* function of models/ticket.go, as the package's tests make them
VARIABLES store, clock, inflight, nreq, last, cancels, lastWrite, call

vars == <<store, clock, inflight, nreq, last, cancels, lastWrite, call>>

-----------------------------------------------------------------------------
(* Bounds of the model. *)

\* the clock takes the values 0..MaxClock
MaxClock == 2

\* requests admitted in one behaviour
MaxReqs == 2

\* requests being handled at the same time
MaxInFlight == 2

\* clock ticks per UTC calendar day
TicksPerDay == 2

\* clock ticks per microsecond: a time.Time is finer than a microsecond
TicksPerMicro == 2

\* longest airport code ValidateAirportCode is called with, besides the
\* codes of the tests
MaxCodeLen == 4

-----------------------------------------------------------------------------
(* Characters and strings. *)

LowerLetters ==
    <<"a","b","c","d","e","f","g","h","i","j","k","l","m",
      "n","o","p","q","r","s","t","u","v","w","x","y","z">>

UpperLetters ==
    <<"A","B","C","D","E","F","G","H","I","J","K","L","M",
      "N","O","P","Q","R","S","T","U","V","W","X","Y","Z">>

Digits == <<"0","1","2","3","4","5","6","7","8","9">>

Range(s) == {s[i] : i \in DOMAIN s}

LowerLetterSet == Range(LowerLetters)

UpperLetterSet == Range(UpperLetters)

DigitSet == Range(Digits)

IsUpperLetter(c) == c \in UpperLetterSet

IsDigit(c) == c \in DigitSet

\* the value of each decimal digit
DigitValues == [c \in DigitSet |-> (CHOOSE i \in DOMAIN Digits : Digits[i] = c) - 1]

DigitVal(c) == DigitValues[c]

\* the uppercase letter of each lowercase letter
UpperOfLower ==
    [c \in LowerLetterSet |-> UpperLetters[CHOOSE i \in DOMAIN LowerLetters : LowerLetters[i] = c]]

\* strings.ToUpper on one ASCII character: a-z map to A-Z, all else is kept
ToUpperChar(c) == IF c \in LowerLetterSet THEN UpperOfLower[c] ELSE c

\* strings.ToUpper
ToUpper(s) == [i \in DOMAIN s |-> ToUpperChar(s[i])]

\* the decimal digits of n >= 0, as fmt's %d prints them
RECURSIVE Itoa(_)
Itoa(n) == IF n < 10 THEN <<Digits[n + 1]>>
           ELSE Append(Itoa(n \div 10), Digits[(n % 10) + 1])

\* the number a run of decimal digits denotes
RECURSIVE Atoi(_)
Atoi(s) == IF s = <<>> THEN 0
           ELSE 10 * Atoi(SubSeq(s, 1, Len(s) - 1)) + DigitVal(s[Len(s)])

AllDigits(s) == \A i \in DOMAIN s : IsDigit(s[i])

-----------------------------------------------------------------------------
(* models/ticket.go: generators and validators. *)

\* const charset in GenerateConfirmationID
charset == UpperLetters \o Digits

\* rand.Intn(n): any value of 0..n-1
Intn(n) == 0 .. (n - 1)

\* GenerateConfirmationID with a buffer one byte short
GenerateConfirmationIDShort(draws) == [i \in 1..5 |-> charset[draws[i] + 1]]

\* GenerateConfirmationID, given the six values its rand.Intn calls return
GenerateConfirmationID(draws) == [i \in 1..6 |-> charset[draws[i] + 1]]

\* GenerateFlightNumber, given the value its rand.Intn(9000) call returns
GenerateFlightNumber(airlineCode, draw) ==
    LET code == IF Len(airlineCode) # 2 THEN <<"A","A">> ELSE airlineCode
        flightNum == draw + 1000
    IN  ToUpper(code) \o Itoa(flightNum)

\* ValidateAirportCode
ValidateAirportCode(code) == Len(code) = 3 /\ ToUpper(code) = code

\* what NewFlightTicket returns for invalid airport codes
Nil == [isNil |-> TRUE]

\* NewFlightTicket validating the origin only
NewFlightTicketChecksOriginOnly(origin, destination, departureDate, departureTime, flightNumber, passengers, now, draws, fdraw) ==
    IF ~ValidateAirportCode(origin)
    THEN Nil
    ELSE LET fn == IF flightNumber = <<>>
                   THEN GenerateFlightNumber(<<"A","A">>, fdraw)
                   ELSE flightNumber
         IN  [confirmation_id |-> GenerateConfirmationID(draws),
              origin          |-> ToUpper(origin),
              destination     |-> ToUpper(destination),
              departure_date  |-> departureDate,
              departure_time  |-> departureTime,
              flight_number   |-> ToUpper(fn),
              passengers      |-> passengers,
              created_at      |-> now,
              updated_at      |-> now,
              status          |-> "CONFIRMED"]

\* NewFlightTicket, given the instant time.Now() returns and the values the
\* random source returns (draws: confirmation id, fdraw: flight number)
NewFlightTicket(origin, destination, departureDate, departureTime, flightNumber, passengers, now, draws, fdraw) ==
    IF ~ValidateAirportCode(origin) \/ ~ValidateAirportCode(destination)
    THEN Nil
    ELSE LET fn == IF flightNumber = <<>>
                   THEN GenerateFlightNumber(<<"A","A">>, fdraw)
                   ELSE flightNumber
         IN  [confirmation_id |-> GenerateConfirmationID(draws),
              origin          |-> ToUpper(origin),
              destination     |-> ToUpper(destination),
              departure_date  |-> departureDate,
              departure_time  |-> departureTime,
              flight_number   |-> ToUpper(fn),
              passengers      |-> passengers,
              created_at      |-> now,
              updated_at      |-> now,
              status          |-> "CONFIRMED"]

-----------------------------------------------------------------------------
(* time.Parse and time.Date as the handlers use them. *)

ParseError == [ok |-> FALSE]

IsLeap(y) == (y % 4 = 0 /\ y % 100 # 0) \/ y % 400 = 0

\* daysIn of package time
DaysIn(m, y) ==
    IF m = 2 THEN (IF IsLeap(y) THEN 29 ELSE 28)
    ELSE IF m \in {4, 6, 9, 11} THEN 30 ELSE 31

\* time.Parse("2006-01-02", s): a four-digit year, a two-digit month and a
\* two-digit day separated by "-", a month of 1..12, a day of that month,
\* and no text after it
ParseDate(s) ==
    IF Len(s) # 10 \/ s[5] # "-" \/ s[8] # "-" THEN ParseError
    ELSE IF ~AllDigits(SubSeq(s, 1, 4) \o SubSeq(s, 6, 7) \o SubSeq(s, 9, 10))
    THEN ParseError
    ELSE LET y == Atoi(SubSeq(s, 1, 4))
             m == Atoi(SubSeq(s, 6, 7))
             d == Atoi(SubSeq(s, 9, 10))
         IN  IF m < 1 \/ m > 12 \/ d < 1 \/ d > DaysIn(m, y) THEN ParseError
             ELSE [ok |-> TRUE, y |-> y, m |-> m, d |-> d]

\* time.Parse("15:04", s): an hour of one or two digits in 0..23, ":", a
\* two-digit minute in 0..59, and no text after it
ParseTime(s) ==
    LET hlen == IF Len(s) >= 2 /\ IsDigit(s[1]) /\ IsDigit(s[2]) THEN 2 ELSE 1
    IN  IF Len(s) # hlen + 3 \/ s[hlen + 1] # ":" THEN ParseError
        ELSE IF ~AllDigits(SubSeq(s, 1, hlen) \o SubSeq(s, hlen + 2, hlen + 3))
        THEN ParseError
        ELSE LET hh == Atoi(SubSeq(s, 1, hlen))
                 mm == Atoi(SubSeq(s, hlen + 2, hlen + 3))
             IN  IF hh > 23 \/ mm > 59 THEN ParseError
                 ELSE [ok |-> TRUE, hh |-> hh, mm |-> mm]

\* the time.Time that time.Parse("2006-01-02", ..) returns: midnight UTC
DateValue(date) == [y |-> date.y, m |-> date.m, d |-> date.d, hh |-> 0, mm |-> 0]

\* time.Date(date.Year(), date.Month(), date.Day(), t.Hour(), t.Minute(), 0, 0, time.UTC)
CombineDateTime(date, t) ==
    [y |-> date.y, m |-> date.m, d |-> date.d, hh |-> t.hh, mm |-> t.mm]

\* time.Now().UTC() at clock tick now, as a calendar date: the clock starts on
\* 2025-01-01 and a day has TicksPerDay ticks
Today(now) == [y |-> 2025, m |-> 1, d |-> 1 + (now \div TicksPerDay)]

-----------------------------------------------------------------------------
(* The document store (the flight_tickets collection) and the requests. *)

\* an empty map[string]interface{}
NoUpdates == [f \in {} |-> 0]

\* a map[string]interface{}: Put sets one key
Put(u, f, v) == [x \in DOMAIN u \cup {f} |-> IF x = f THEN v ELSE u[x]]

\* the Timestamp Firestore keeps for a time.Time: whole microseconds, the
\* rest is cut off
StoredTime(t) == t - (t % TicksPerMicro)

\* the value Firestore keeps for field f written with value v: the instants
\* (created_at, updated_at) as Timestamps; strings, integers and the calendar
\* values, which have no seconds, as they are
StoredValue(f, v) == IF f \in {"created_at", "updated_at"} THEN StoredTime(v) ELSE v

\* StoredDoc for a struct whose FlightNumber field has no firestore name: the
\* document is read back with an empty flight_number
StoredDocDropsFlightNumber(ticket) ==
    [f \in DOMAIN ticket |-> IF f = "flight_number" THEN <<>> ELSE StoredValue(f, ticket[f])]

\* the document Firestore keeps for a ticket
StoredDoc(ticket) == [f \in DOMAIN ticket |-> StoredValue(f, ticket[f])]

\* a Set that names the document after the ticket's flight number
DocSetByFlightNumber(st, id, ticket) == Put(st, ticket.flight_number, StoredDoc(ticket))

\* DocumentRef.Create in place of Set: a document that exists is kept
DocSetIfAbsent(st, id, ticket) ==
    IF id \in DOMAIN st THEN st ELSE Put(st, id, StoredDoc(ticket))

\* DocumentRef.Set: create or overwrite the document under key id
DocSet(st, id, ticket) == Put(st, id, StoredDoc(ticket))

\* DocUpdate as a Set of the whole request: origin, destination,
\* flight_number, passengers and status take the zero value of their type
\* when the updates do not name them
DocUpdateClearsUnnamed(st, id, updates) ==
    [st EXCEPT ![id] = [f \in DOMAIN @ |->
                          IF f \in DOMAIN updates THEN StoredValue(f, updates[f])
                          ELSE IF f \in {"origin", "destination", "flight_number"} THEN <<>>
                          ELSE IF f = "passengers" THEN 0
                          ELSE IF f = "status" THEN ""
                          ELSE @[f]]]

\* DocumentRef.Update on an existing document: the named fields are
\* replaced, every other field is kept
DocUpdate(st, id, updates) ==
    [st EXCEPT ![id] = [f \in DOMAIN @ |->
                          IF f \in DOMAIN updates THEN StoredValue(f, updates[f]) ELSE @[f]]]

StatusValues == {"CONFIRMED", "CANCELLED", "PENDING"}

NoBody == [empty |-> TRUE]

\* the response a handler writes: to which request (op, id, req), and what
Response(op, id, req, code, err, body) ==
    [op |-> op, id |-> id, req |-> req, code |-> code, err |-> err, body |-> body]

\* last when the step just taken wrote no response
NoResponse == Response("none", <<>>, NoBody, 0, "", NoBody)

\* a request being handled: pc is the storage call it makes next
Handling(op, pc, id, req, ticket, updates) ==
    [op |-> op, pc |-> pc, id |-> id, req |-> req, ticket |-> ticket, updates |-> updates]

\* what lastWrite keeps of the Firestore write of the request h: the
\* document a create sets, the fields an update or a cancel names
Written(h) ==
    [op |-> h.op, id |-> h.id, updates |-> IF h.op = "create" THEN h.ticket ELSE h.updates]

\* call when no function is called directly
NoCall == [fn |-> "none"]

\* the requests being handled are a bag: two of them may be equal
One(h) == SetToBag({h})

\* the instants a time.Now() may return: the clock does not run backwards
Nows == {t \in clock..(clock + 1) : t <= MaxClock}

\* the model follows one response at a time: a response is read off (Deliver)
\* before the next step is taken.  Writing a response touches neither the
\* store nor the clock, so this leaves out no interleaving of storage calls
Quiet == last = NoResponse

CanAdmit == Quiet /\ nreq < MaxReqs /\ BagCardinality(inflight) < MaxInFlight

-----------------------------------------------------------------------------
(* The requests and random values the model draws from. *)

\* values of the six rand.Intn(36) calls of one GenerateConfirmationID:
\* "ABC012" and "Z9JA4N"
IdDraws == {<<0, 1, 2, 26, 27, 28>>, <<25, 35, 9, 0, 30, 13>>}

\* values of the rand.Intn(9000) call of GenerateFlightNumber
FlightDraws == {0, 8999}

\* the confirmationID path parameter: an id the service can issue.  The
\* router's pattern /ticket/{confirmationID} matches no empty parameter, so
\* the handlers are never called with ""
PathIds == {GenerateConfirmationID(d) : d \in IdDraws}

CreateBase ==
    [json |-> TRUE,
     origin |-> <<"J","F","K">>,
     destination |-> <<"L","A","X">>,
     departure_date |-> <<"2","0","2","4","-","1","2","-","2","5">>,
     departure_time |-> <<"1","4",":","3","0">>,
     flight_number |-> <<"A","A","1","2","3","4">>,
     passengers |-> 2]

CreateReqs ==
    {CreateBase, [CreateBase EXCEPT !.json = FALSE]}
    \cup {[CreateBase EXCEPT !.origin = o] :
            o \in {<<>>, <<"j","f","k">>, <<"J","1","K">>}}
    \cup {[CreateBase EXCEPT !.destination = d] :
            d \in {<<>>, <<"L","A","X","X">>}}
    \cup {[CreateBase EXCEPT !.departure_date = d] :
            d \in {<<>>, <<"2","0","2","4","-","0","2","-","3","0">>}}
    \cup {[CreateBase EXCEPT !.departure_time = t] :
            t \in {<<>>, <<"2","5",":","0","0">>}}
    \cup {[CreateBase EXCEPT !.flight_number = <<"x">>]}
    \cup {[CreateBase EXCEPT !.passengers = n] : n \in {0, -1}}
    \cup {[CreateBase EXCEPT !.passengers = 0, !.origin = <<"j","f","k">>,
                              !.departure_date = <<"2","0","2","4","-","0","2","-","3","0">>]}

UpdateBase ==
    [json |-> TRUE, origin |-> <<>>, destination |-> <<>>, departure_date |-> <<>>,
     departure_time |-> <<>>, flight_number |-> <<>>, passengers |-> 0, status |-> ""]

UpdateReqs ==
    {UpdateBase, [UpdateBase EXCEPT !.json = FALSE]}
    \cup {[UpdateBase EXCEPT !.origin = <<"o","r","d">>]}
    \cup {[UpdateBase EXCEPT !.destination = d] : d \in {<<"S","F">>}}
    \cup {[UpdateBase EXCEPT !.departure_date = <<"0","2","/","0","1">>]}
    \cup {[UpdateBase EXCEPT !.departure_time = <<"9","h","1","5">>]}
    \cup {[UpdateBase EXCEPT !.flight_number = <<"u","a","5">>, !.passengers = -1]}
    \cup {[UpdateBase EXCEPT !.passengers = n] : n \in {3, -1}}
    \cup {[UpdateBase EXCEPT !.status = x] : x \in {"PENDING", "INVALID"}}
    \cup {[UpdateBase EXCEPT !.origin = <<"O","R","D">>, !.status = "INVALID"]}
    \cup {[UpdateBase EXCEPT !.origin = <<"o","r","d">>, !.destination = <<"S","F">>],
          [UpdateBase EXCEPT !.destination = <<"S","F">>, !.departure_date = <<"0","2","/","0","1">>],
          [UpdateBase EXCEPT !.departure_date = <<"0","2","/","0","1">>,
                             !.departure_time = <<"9","h","1","5">>],
          [UpdateBase EXCEPT !.departure_time = <<"9","h","1","5">>, !.flight_number = <<"u","a","5">>,
                             !.passengers = -1, !.status = "INVALID"]}

-----------------------------------------------------------------------------
(* handlers/ticket.go: CreateTicket. *)

\* CreateRequestError parsing the date and the time before it looks for
\* missing fields
CreateRequestErrorParsesFirst(req) ==
    IF ~req.json THEN "Invalid JSON payload"
    ELSE IF ~ParseDate(req.departure_date).ok THEN "Invalid departure_date format"
    ELSE IF ~ParseTime(req.departure_time).ok THEN "Invalid departure_time format"
    ELSE IF req.origin = <<>> \/ req.destination = <<>> \/ req.departure_date = <<>>
            \/ req.departure_time = <<>> \/ req.passengers <= 0
    THEN "Missing required fields"
    ELSE ""

\* CreateTicket before it builds the ticket: the error response of the
\* checks that come first, "" when the request passes them
CreateRequestError(req) ==
    IF ~req.json THEN "Invalid JSON payload"
    ELSE IF req.origin = <<>> \/ req.destination = <<>> \/ req.departure_date = <<>>
            \/ req.departure_time = <<>> \/ req.passengers <= 0
    THEN "Missing required fields"
    ELSE IF ~ParseDate(req.departure_date).ok THEN "Invalid departure_date format"
    ELSE IF ~ParseTime(req.departure_time).ok THEN "Invalid departure_time format"
    ELSE ""

\* the ticket CreateTicket builds from a request that passed the checks, or Nil
CreateBuild(req, now, draws, fdraw) ==
    LET departureDate == ParseDate(req.departure_date)
        timeOnly == ParseTime(req.departure_time)
        departureTime == CombineDateTime(departureDate, timeOnly)
    IN  NewFlightTicket(req.origin, req.destination, DateValue(departureDate), departureTime,
                        req.flight_number, req.passengers, now, draws, fdraw)

\* the values rand.Intn(9000) may return where GenerateFlightNumber is called
FlightDrawsFor(req) == IF req.flight_number = <<>> THEN FlightDraws ELSE {0}

\* POST /ticket: decode, validate, parse and build the ticket.  The request
\* ends here with a 400, or goes on to the Firestore write
CreateTicket(req) ==
    /\ UNCHANGED <<call, cancels, lastWrite>>
    /\ CanAdmit
    /\ nreq' = nreq + 1
    /\ IF CreateRequestError(req) # ""
       THEN /\ last' = Response("create", <<>>, req, 400, CreateRequestError(req), NoBody)
            /\ UNCHANGED <<store, clock, inflight>>
       ELSE \E now \in Nows, draws \in IdDraws, fdraw \in FlightDrawsFor(req) :
              LET ticket == CreateBuild(req, now, draws, fdraw)
              IN  IF ticket = Nil
                  THEN /\ last' = Response("create", <<>>, req, 400, "Invalid airport codes", NoBody)
                       /\ UNCHANGED <<store, clock, inflight>>
                  ELSE /\ inflight' = inflight (+) One(Handling("create", "set",
                                          ticket.confirmation_id, req, ticket, NoUpdates))
                       /\ clock' = now
                       /\ last' = NoResponse
                       /\ UNCHANGED store

\* FirestoreService.CreateTicket succeeds: Doc(ticket.ConfirmationID).Set(ticket),
\* and the handler answers 201 with the ticket
CreateSet(h) ==
    /\ UNCHANGED <<call, cancels>>
    /\ lastWrite' = Put(lastWrite, h.id, Written(h))
    /\ Quiet
    /\ BagIn(h, inflight)
    /\ h.op = "create" /\ h.pc = "set"
    /\ store' = DocSet(store, h.ticket.confirmation_id, h.ticket)
    /\ last' = Response("create", h.id, h.req, 201, "", h.ticket)
    /\ inflight' = inflight (-) One(h)
    /\ UNCHANGED <<clock, nreq>>

\* FirestoreService.CreateTicket returns an error: the handler answers 500
CreateSetFails(h) ==
    /\ UNCHANGED <<call, cancels, lastWrite>>
    /\ Quiet
    /\ BagIn(h, inflight)
    /\ h.op = "create" /\ h.pc = "set"
    /\ last' = Response("create", h.id, h.req, 500, "Failed to create ticket", NoBody)
    /\ inflight' = inflight (-) One(h)
    /\ UNCHANGED <<store, clock, nreq>>

-----------------------------------------------------------------------------
(* handlers/ticket.go: UpdateTicket.  The handler fills the updates map    *)
(* field by field and returns at the first field that fails validation; a  *)
(* stage is [err, updates]: the error found so far and the map so far.     *)

Reject(s, err) == [s EXCEPT !.err = err]

Stage(s, f, v) == [s EXCEPT !.updates = Put(@, f, v)]

StageOrigin(s, req) ==
    IF s.err # "" \/ req.origin = <<>> THEN s
    ELSE IF ~ValidateAirportCode(req.origin) THEN Reject(s, "Invalid origin airport code")
    ELSE Stage(s, "origin", req.origin)

StageDestination(s, req) ==
    IF s.err # "" \/ req.destination = <<>> THEN s
    ELSE IF ~ValidateAirportCode(req.destination)
    THEN Reject(s, "Invalid destination airport code")
    ELSE Stage(s, "destination", req.destination)

StageDepartureDate(s, req) ==
    IF s.err # "" \/ req.departure_date = <<>> THEN s
    ELSE IF ~ParseDate(req.departure_date).ok
    THEN Reject(s, "Invalid departure_date format")
    ELSE Stage(s, "departure_date", DateValue(ParseDate(req.departure_date)))

\* StageDepartureTime combining the time with today's date even when a
\* departure_date comes with it
StageDepartureTimeAlwaysToday(s, req, today) ==
    IF s.err # "" \/ req.departure_time = <<>> THEN s
    ELSE IF ~ParseTime(req.departure_time).ok
    THEN Reject(s, "Invalid departure_time format")
    ELSE IF req.departure_date # <<>> /\ ~ParseDate(req.departure_date).ok
    THEN Reject(s, "Invalid departure_date format")
    ELSE Stage(s, "departure_time", CombineDateTime(today, ParseTime(req.departure_time)))

\* today is time.Now().UTC(), read when no departure_date comes with the time
StageDepartureTime(s, req, today) ==
    IF s.err # "" \/ req.departure_time = <<>> THEN s
    ELSE IF ~ParseTime(req.departure_time).ok
    THEN Reject(s, "Invalid departure_time format")
    ELSE IF req.departure_date # <<>>
    THEN IF ~ParseDate(req.departure_date).ok
         THEN Reject(s, "Invalid departure_date format")
         ELSE Stage(s, "departure_time",
                    CombineDateTime(ParseDate(req.departure_date), ParseTime(req.departure_time)))
    ELSE Stage(s, "departure_time", CombineDateTime(today, ParseTime(req.departure_time)))

\* StageFlightNumber without the test for an empty flight_number
StageFlightNumberAlways(s, req) ==
    IF s.err # "" THEN s
    ELSE Stage(s, "flight_number", req.flight_number)

StageFlightNumber(s, req) ==
    IF s.err # "" \/ req.flight_number = <<>> THEN s
    ELSE Stage(s, "flight_number", req.flight_number)

\* StagePassengers testing passengers != 0 in place of passengers > 0
StagePassengersNonZero(s, req) ==
    IF s.err # "" \/ req.passengers = 0 THEN s
    ELSE Stage(s, "passengers", req.passengers)

StagePassengers(s, req) ==
    IF s.err # "" \/ ~(req.passengers > 0) THEN s
    ELSE Stage(s, "passengers", req.passengers)

\* StageStatus without the check of the three values
StageStatusUnchecked(s, req) ==
    IF s.err # "" \/ req.status = "" THEN s
    ELSE Stage(s, "status", req.status)

StageStatus(s, req) ==
    IF s.err # "" \/ req.status = "" THEN s
    ELSE IF req.status # "CONFIRMED" /\ req.status # "CANCELLED" /\ req.status # "PENDING"
    THEN Reject(s, "Invalid status")
    ELSE Stage(s, "status", req.status)

\* BuildUpdates with the status block moved before the other fields
BuildUpdatesStatusFirst(req, today) ==
    LET s == StagePassengers(StageFlightNumber(StageDepartureTime(StageDepartureDate(
                 StageDestination(StageOrigin(StageStatus([err |-> "", updates |-> NoUpdates], req),
                 req), req), req), req, today), req), req)
    IN  IF s.err = "" /\ DOMAIN s.updates = {}
        THEN Reject(s, "No fields to update")
        ELSE s

\* BuildUpdates without the check of len(updates) == 0
BuildUpdatesNoEmptyCheck(req, today) ==
    StageStatus(StagePassengers(StageFlightNumber(StageDepartureTime(StageDepartureDate(
        StageDestination(StageOrigin([err |-> "", updates |-> NoUpdates], req), req), req),
        req, today), req), req), req)

\* the updates map of UpdateTicket, or the error it returns
BuildUpdates(req, today) ==
    LET s0 == [err |-> "", updates |-> NoUpdates]
        s1 == StageOrigin(s0, req)
        s2 == StageDestination(s1, req)
        s3 == StageDepartureDate(s2, req)
        s4 == StageDepartureTime(s3, req, today)
        s5 == StageFlightNumber(s4, req)
        s6 == StagePassengers(s5, req)
        s7 == StageStatus(s6, req)
    IN  IF s7.err = "" /\ DOMAIN s7.updates = {}
        THEN Reject(s7, "No fields to update")
        ELSE s7

\* UpdateTicket before it fills the updates map: the error response of the
\* checks that come first, "" when the request passes them
UpdateRequestError(id, req) ==
    IF id = <<>> THEN "Confirmation ID is required"
    ELSE IF ~req.json THEN "Invalid JSON payload"
    ELSE ""

\* the instants time.Now().UTC() may return where UpdateTicket reads today's
\* date: it is read only for a departure_time without a departure_date
TodayNows(req) ==
    IF req.departure_time # <<>> /\ req.departure_date = <<>> THEN Nows ELSE {clock}

\* UpdateTicket writing each field to Firestore as it stages it: a request
\* rejected at a later field has written the earlier ones
UpdateTicketWritesAsItStages(id, req) ==
    /\ UNCHANGED <<call, cancels, lastWrite>>
    /\ CanAdmit
    /\ nreq' = nreq + 1
    /\ IF UpdateRequestError(id, req) # ""
       THEN /\ last' = Response("update", id, req, 400, UpdateRequestError(id, req), NoBody)
            /\ UNCHANGED <<store, clock, inflight>>
       ELSE \E now1 \in TodayNows(req) :
              LET s == BuildUpdates(req, Today(now1))
              IN  IF s.err # ""
                  THEN /\ last' = Response("update", id, req, 400, s.err, NoBody)
                       /\ store' = IF id \in DOMAIN store THEN DocUpdate(store, id, s.updates)
                                   ELSE store
                       /\ UNCHANGED <<clock, inflight>>
                  ELSE \E now2 \in Nows :
                         /\ now1 <= now2
                         /\ inflight' = inflight (+) One(Handling("update", "write", id, req,
                                            Nil, Put(s.updates, "updated_at", now2)))
                         /\ clock' = now2
                         /\ last' = NoResponse
                         /\ UNCHANGED store

\* PUT /ticket/{confirmationID}: validate and fill the updates map (now1 is
\* the handler's time.Now()); FirestoreService.UpdateTicket then adds
\* updated_at, read from time.Now() (now2), before it calls Firestore.  The
\* request ends here with a 400, or goes on to the Firestore write
UpdateTicket(id, req) ==
    /\ UNCHANGED <<call, cancels, lastWrite>>
    /\ CanAdmit
    /\ nreq' = nreq + 1
    /\ IF UpdateRequestError(id, req) # ""
       THEN /\ last' = Response("update", id, req, 400, UpdateRequestError(id, req), NoBody)
            /\ UNCHANGED <<store, clock, inflight>>
       ELSE \E now1 \in TodayNows(req) :
              LET s == BuildUpdates(req, Today(now1))
              IN  IF s.err # ""
                  THEN /\ last' = Response("update", id, req, 400, s.err, NoBody)
                       /\ UNCHANGED <<store, clock, inflight>>
                  ELSE \E now2 \in Nows :
                         /\ now1 <= now2
                         /\ inflight' = inflight (+) One(Handling("update", "write", id, req,
                                            Nil, Put(s.updates, "updated_at", now2)))
                         /\ clock' = now2
                         /\ last' = NoResponse
                         /\ UNCHANGED store

\* UpdateWrite with Set(updates, MergeAll) in place of Update: a document is
\* created when there is none under confirmationID
UpdateWriteUpserts(h) ==
    /\ UNCHANGED <<call, cancels>>
    /\ lastWrite' = Put(lastWrite, h.id, Written(h))
    /\ Quiet
    /\ BagIn(h, inflight)
    /\ h.op = "update" /\ h.pc = "write"
    /\ store' = IF h.id \in DOMAIN store THEN DocUpdate(store, h.id, h.updates)
                ELSE Put(store, h.id, [f \in DOMAIN h.updates |-> StoredValue(f, h.updates[f])])
    /\ inflight' = (inflight (-) One(h)) (+) One([h EXCEPT !.pc = "read"])
    /\ last' = NoResponse
    /\ UNCHANGED <<clock, nreq>>

\* FirestoreService.UpdateTicket: Doc(confirmationID).Update(updates) on an
\* existing document; the handler goes on to read the ticket back
UpdateWrite(h) ==
    /\ UNCHANGED <<call, cancels>>
    /\ lastWrite' = Put(lastWrite, h.id, Written(h))
    /\ Quiet
    /\ BagIn(h, inflight)
    /\ h.op = "update" /\ h.pc = "write"
    /\ h.id \in DOMAIN store
    /\ store' = DocUpdate(store, h.id, h.updates)
    /\ inflight' = (inflight (-) One(h)) (+) One([h EXCEPT !.pc = "read"])
    /\ last' = NoResponse
    /\ UNCHANGED <<clock, nreq>>

\* FirestoreService.UpdateTicket returns an error (always so when there is no
\* document under confirmationID): the handler answers 500
UpdateWriteFails(h) ==
    /\ UNCHANGED <<call, cancels, lastWrite>>
    /\ Quiet
    /\ BagIn(h, inflight)
    /\ h.op = "update" /\ h.pc = "write"
    /\ last' = Response("update", h.id, h.req, 500, "Failed to update ticket", NoBody)
    /\ inflight' = inflight (-) One(h)
    /\ UNCHANGED <<store, clock, nreq>>

\* UpdateRead answering with the fields it wrote laid over the document read
UpdateReadOwnValues(h) ==
    /\ UNCHANGED <<call, cancels, lastWrite>>
    /\ Quiet
    /\ BagIn(h, inflight)
    /\ h.op = "update" /\ h.pc = "read"
    /\ h.id \in DOMAIN store
    /\ last' = Response("update", h.id, h.req, 200, "", DocUpdate(store, h.id, h.updates)[h.id])
    /\ inflight' = inflight (-) One(h)
    /\ UNCHANGED <<store, clock, nreq>>

\* FirestoreService.GetTicket after the write: the handler answers 200 with
\* the document it reads
UpdateRead(h) ==
    /\ UNCHANGED <<call, cancels, lastWrite>>
    /\ Quiet
    /\ BagIn(h, inflight)
    /\ h.op = "update" /\ h.pc = "read"
    /\ h.id \in DOMAIN store
    /\ last' = Response("update", h.id, h.req, 200, "", store[h.id])
    /\ inflight' = inflight (-) One(h)
    /\ UNCHANGED <<store, clock, nreq>>

\* FirestoreService.GetTicket after the write returns an error: 500
UpdateReadFails(h) ==
    /\ UNCHANGED <<call, cancels, lastWrite>>
    /\ Quiet
    /\ BagIn(h, inflight)
    /\ h.op = "update" /\ h.pc = "read"
    /\ last' = Response("update", h.id, h.req, 500,
                            "Ticket updated but failed to retrieve", NoBody)
    /\ inflight' = inflight (-) One(h)
    /\ UNCHANGED <<store, clock, nreq>>

-----------------------------------------------------------------------------
(* handlers/ticket.go: DeleteTicket and GetTicket. *)

\* the map FirestoreService.DeleteTicket fills (updated_at read at now1) and
\* hands to FirestoreService.UpdateTicket, which sets updated_at again (now2)
CancelUpdates(now1, now2) ==
    Put(Put(Put(NoUpdates, "status", "CANCELLED"), "updated_at", now1), "updated_at", now2)

\* DELETE /ticket/{confirmationID}: the request ends here with a 400, or goes
\* on to the Firestore write
DeleteTicket(id) ==
    /\ UNCHANGED <<call, cancels, lastWrite>>
    /\ CanAdmit
    /\ nreq' = nreq + 1
    /\ IF id = <<>>
       THEN /\ last' = Response("delete", id, NoBody, 400, "Confirmation ID is required", NoBody)
            /\ UNCHANGED <<store, clock, inflight>>
       ELSE \E now1 \in Nows, now2 \in Nows :
              /\ now1 <= now2
              /\ inflight' = inflight (+) One(Handling("delete", "write", id, NoBody, Nil,
                                 CancelUpdates(now1, now2)))
              /\ clock' = now2
              /\ last' = NoResponse
              /\ UNCHANGED store

\* DeleteWrite with a Delete of the document in place of the Update
DeleteWriteRemoves(h) ==
    /\ cancels' = cancels (+) One(h.id)
    /\ lastWrite' = Put(lastWrite, h.id, Written(h))
    /\ UNCHANGED call
    /\ Quiet
    /\ BagIn(h, inflight)
    /\ h.op = "delete" /\ h.pc = "write"
    /\ h.id \in DOMAIN store
    /\ store' = [k \in DOMAIN store \ {h.id} |-> store[k]]
    /\ last' = Response("delete", h.id, h.req, 200, "", NoBody)
    /\ inflight' = inflight (-) One(h)
    /\ UNCHANGED <<clock, nreq>>

\* DeleteWrite refusing a ticket that is CANCELLED already
DeleteWriteOnce(h) ==
    /\ cancels' = cancels (+) One(h.id)
    /\ lastWrite' = Put(lastWrite, h.id, Written(h))
    /\ UNCHANGED call
    /\ Quiet
    /\ BagIn(h, inflight)
    /\ h.op = "delete" /\ h.pc = "write"
    /\ h.id \in DOMAIN store
    /\ store[h.id].status # "CANCELLED"
    /\ store' = DocUpdate(store, h.id, h.updates)
    /\ last' = Response("delete", h.id, h.req, 200, "", NoBody)
    /\ inflight' = inflight (-) One(h)
    /\ UNCHANGED <<clock, nreq>>

\* the Firestore write of a cancel succeeds: the handler answers 200
DeleteWrite(h) ==
    /\ cancels' = cancels (+) One(h.id)
    /\ lastWrite' = Put(lastWrite, h.id, Written(h))
    /\ UNCHANGED call
    /\ Quiet
    /\ BagIn(h, inflight)
    /\ h.op = "delete" /\ h.pc = "write"
    /\ h.id \in DOMAIN store
    /\ store' = DocUpdate(store, h.id, h.updates)
    /\ last' = Response("delete", h.id, h.req, 200, "", NoBody)
    /\ inflight' = inflight (-) One(h)
    /\ UNCHANGED <<clock, nreq>>

\* the Firestore write of a cancel returns an error (always so when there is
\* no document under confirmationID): the handler answers 500
DeleteWriteFails(h) ==
    /\ UNCHANGED <<call, cancels, lastWrite>>
    /\ Quiet
    /\ BagIn(h, inflight)
    /\ h.op = "delete" /\ h.pc = "write"
    /\ last' = Response("delete", h.id, h.req, 500, "Failed to cancel ticket", NoBody)
    /\ inflight' = inflight (-) One(h)
    /\ UNCHANGED <<store, clock, nreq>>

\* what GetTicket answers: 400 without an id, 404 when
\* FirestoreService.GetTicket returns an error (storeOk is false when
\* Firestore fails), else 200 with the document
GetResponse(id, storeOk) ==
    IF id = <<>>
    THEN Response("get", id, NoBody, 400, "Confirmation ID is required", NoBody)
    ELSE IF id \in DOMAIN store /\ storeOk
    THEN Response("get", id, NoBody, 200, "", store[id])
    ELSE Response("get", id, NoBody, 404, "Ticket not found", NoBody)

\* GET /ticket/{confirmationID}
GetTicket(id, storeOk) ==
    /\ UNCHANGED <<call, cancels, lastWrite>>
    /\ CanAdmit
    /\ nreq' = nreq + 1
    /\ last' = GetResponse(id, storeOk)
    /\ UNCHANGED <<store, clock, inflight>>

\* strconv.Atoi: an optional sign and decimal digits, else an error
ParseInt(str) ==
    LET signed == str # <<>> /\ str[1] \in {"+", "-"}
        digits == IF signed THEN Tail(str) ELSE str
    IN  IF digits = <<>> \/ ~AllDigits(digits) THEN [ok |-> FALSE, n |-> 0]
        ELSE [ok |-> TRUE, n |-> IF signed /\ str[1] = "-" THEN 0 - Atoi(digits) ELSE Atoi(digits)]

\* the limit query parameter of the requests: absent, numbers, not a number
LimitParams == {<<>>, <<"1">>, <<"2">>, <<"0">>, <<"-","1">>, <<"x">>}

\* the default limit of ListTickets
DefaultLimit == 50

\* the limit TicketHandler.ListTickets hands to the Firestore service
ListLimit(limitStr) ==
    IF limitStr # <<>> /\ ParseInt(limitStr).ok /\ ParseInt(limitStr).n > 0
    THEN ParseInt(limitStr).n
    ELSE DefaultLimit

\* OrderBy("created_at", firestore.Desc): the documents of keys, the latest
\* created first (documents created at the same instant follow each other in
\* an order of Firestore's, here the one CHOOSE takes)
RECURSIVE OrderByCreatedAtDesc(_, _)
OrderByCreatedAtDesc(st, keys) ==
    IF keys = {} THEN <<>>
    ELSE LET k == CHOOSE x \in keys : \A y \in keys : st[y].created_at <= st[x].created_at
         IN  <<st[k]>> \o OrderByCreatedAtDesc(st, keys \ {k})

\* FirestoreService.ListTickets with the query in ascending order
QueryTicketsAscending(st, limit) ==
    LET desc == OrderByCreatedAtDesc(st, DOMAIN st)
        docs == [i \in 1..Len(desc) |-> desc[Len(desc) + 1 - i]]
    IN  IF limit > 0 /\ limit < Len(docs) THEN SubSeq(docs, 1, limit) ELSE docs

\* FirestoreService.ListTickets: the query, limited when limit > 0
QueryTickets(st, limit) ==
    LET docs == OrderByCreatedAtDesc(st, DOMAIN st)
    IN  IF limit > 0 /\ limit < Len(docs) THEN SubSeq(docs, 1, limit) ELSE docs

\* GET /tickets?limit=..: 500 when FirestoreService.ListTickets returns an
\* error, else the tickets and their number
ListTickets(limitStr, storeOk) ==
    /\ UNCHANGED <<call, cancels, lastWrite>>
    /\ CanAdmit
    /\ nreq' = nreq + 1
    /\ last' = IF storeOk
               THEN LET tickets == QueryTickets(store, ListLimit(limitStr))
                    IN  Response("list", <<>>, [limit |-> limitStr], 200, "",
                                 [tickets |-> tickets, count |-> Len(tickets)])
               ELSE Response("list", <<>>, [limit |-> limitStr], 500,
                             "Failed to retrieve tickets", NoBody)
    /\ UNCHANGED <<store, clock, inflight>>

-----------------------------------------------------------------------------
(* The service: an empty collection, and the requests handled concurrently. *)

Init ==
    /\ store = <<>>
    /\ clock = 0
    /\ inflight = EmptyBag
    /\ nreq = 0
    /\ last = NoResponse
    /\ cancels = EmptyBag
    /\ lastWrite = NoUpdates
    /\ call = NoCall

\* the client reads the response
Deliver ==
    /\ UNCHANGED <<call, cancels, lastWrite>>
    /\ last # NoResponse
    /\ last' = NoResponse
    /\ UNCHANGED <<store, clock, inflight, nreq>>

Next ==
    \/ \E req \in CreateReqs : CreateTicket(req)
    \/ \E h \in BagToSet(inflight) : CreateSet(h)
    \/ \E h \in BagToSet(inflight) : CreateSetFails(h)
    \/ \E id \in PathIds, req \in UpdateReqs : UpdateTicket(id, req)
    \/ \E h \in BagToSet(inflight) : UpdateWrite(h)
    \/ \E h \in BagToSet(inflight) : UpdateWriteFails(h)
    \/ \E h \in BagToSet(inflight) : UpdateRead(h)
    \/ \E h \in BagToSet(inflight) : UpdateReadFails(h)
    \/ \E id \in PathIds : DeleteTicket(id)
    \/ \E h \in BagToSet(inflight) : DeleteWrite(h)
    \/ \E h \in BagToSet(inflight) : DeleteWriteFails(h)
    \/ \E id \in PathIds, storeOk \in BOOLEAN : GetTicket(id, storeOk)
    \/ \E limitStr \in LimitParams, storeOk \in BOOLEAN : ListTickets(limitStr, storeOk)
    \/ Deliver

Spec == Init /\ [][Next]_vars

\* the service some time after start: one ticket, created from CreateBase at
\* instant 0 under the id ABC012, is stored and its create request answered,
\* and the clock has moved on a tick; nreq counts the requests that follow
InitStored ==
    /\ store = LET t == CreateBuild(CreateBase, 0, <<0, 1, 2, 26, 27, 28>>, 0)
               IN  DocSet(<<>>, t.confirmation_id, t)
    /\ clock = 1
    /\ inflight = EmptyBag
    /\ nreq = 0
    /\ last = NoResponse
    /\ cancels = EmptyBag
    /\ lastWrite = NoUpdates
    /\ call = NoCall

\* the requests that follow: other kinds than in Next, among them a create
\* without a flight number and updates of the airports, the date and the time
StoredCreateReqs ==
    {[CreateBase EXCEPT !.flight_number = <<>>], [CreateBase EXCEPT !.passengers = 0]}

StoredUpdateReqs ==
    {UpdateBase,
     [UpdateBase EXCEPT !.passengers = 3],
     [UpdateBase EXCEPT !.status = "PENDING"],
     [UpdateBase EXCEPT !.origin = <<"O","R","D">>],
     [UpdateBase EXCEPT !.departure_date = <<"2","0","2","5","-","0","1","-","0","2">>],
     [UpdateBase EXCEPT !.departure_time = <<"9",":","1","5">>],
     [UpdateBase EXCEPT !.departure_date = <<"2","0","2","5","-","0","1","-","0","2">>,
                        !.departure_time = <<"9",":","1","5">>]}

NextStored ==
    \/ \E req \in StoredCreateReqs : CreateTicket(req)
    \/ \E h \in BagToSet(inflight) : CreateSet(h)
    \/ \E h \in BagToSet(inflight) : CreateSetFails(h)
    \/ \E id \in PathIds, req \in StoredUpdateReqs : UpdateTicket(id, req)
    \/ \E h \in BagToSet(inflight) : UpdateWrite(h)
    \/ \E h \in BagToSet(inflight) : UpdateWriteFails(h)
    \/ \E h \in BagToSet(inflight) : UpdateRead(h)
    \/ \E h \in BagToSet(inflight) : UpdateReadFails(h)
    \/ \E id \in PathIds : DeleteTicket(id)
    \/ \E h \in BagToSet(inflight) : DeleteWrite(h)
    \/ \E h \in BagToSet(inflight) : DeleteWriteFails(h)
    \/ \E id \in PathIds, storeOk \in BOOLEAN : GetTicket(id, storeOk)
    \/ \E limitStr \in LimitParams, storeOk \in BOOLEAN : ListTickets(limitStr, storeOk)
    \/ Deliver

StoredSpec == InitStored /\ [][NextStored]_vars

-----------------------------------------------------------------------------
(* models/ticket.go called directly, as ticket_test.go calls it: call holds *)
(* the function and its arguments, and the result once it has returned.    *)

Str3(a, b, c) == <<a, b, c>>

\* the characters of the airport codes tried: a letter, a lowercase letter,
\* a digit
CodeChars == {"J", "f", "1"}

\* the strings of CodeChars of length 0..n
RECURSIVE Codes(_)
Codes(n) ==
    IF n = 0 THEN {<<>>}
    ELSE LET shorter == Codes(n - 1)
         IN  shorter \cup {Append(c, x) : c \in shorter, x \in CodeChars}

\* the codes of TestValidateAirportCode and
\* TestNewFlightTicketInvalidAirportCode
TestCodes ==
    {Str3("J","F","K"), Str3("L","A","X"), Str3("O","R","D"), Str3("j","f","k"),
     <<"J","F","K","X">>, <<"J","F">>, <<>>,
     <<"I","N","V","A","L","I","D">>, <<"i","n","v","a","l","i","d">>}

ValidateAirportCodeCalls ==
    {[fn |-> "ValidateAirportCode", done |-> FALSE, code |-> c] :
        c \in Codes(MaxCodeLen) \cup TestCodes}

\* NewFlightTicket with the date and time of TestNewFlightTicket
NewFlightTicketCalls ==
    {[fn |-> "NewFlightTicket", done |-> FALSE, origin |-> o, destination |-> d,
      departureDate |-> [y |-> 2024, m |-> 12, d |-> 25, hh |-> 0, mm |-> 0],
      departureTime |-> [y |-> 2024, m |-> 1, d |-> 1, hh |-> 14, mm |-> 30],
      flightNumber |-> f, passengers |-> n] :
        o \in {Str3("J","F","K"), Str3("j","f","k"), Str3("J","1","K"),
               <<"I","N","V","A","L","I","D">>},
        d \in {Str3("L","A","X"), <<>>, <<"i","n","v","a","l","i","d">>},
        f \in {<<"A","A","1","2","3","4">>, <<"u","a","5","6","7">>, <<>>},
        n \in {2, 0}}

\* GenerateFlightNumber with the code of TestGenerateFlightNumber and with
\* codes of other lengths, in lowercase and with a digit
GenerateFlightNumberCalls ==
    {[fn |-> "GenerateFlightNumber", done |-> FALSE, airlineCode |-> c] :
        c \in {<<"A","A">>, <<"u","a">>, <<"U">>, <<>>, <<"U","A","L">>, <<"1","2">>, <<"a","1">>}}

InitModels ==
    /\ store = <<>>
    /\ clock = 0
    /\ inflight = EmptyBag
    /\ nreq = 0
    /\ last = NoResponse
    /\ cancels = EmptyBag
    /\ lastWrite = NoUpdates
    /\ call \in ValidateAirportCodeCalls \cup NewFlightTicketCalls \cup GenerateFlightNumberCalls

\* the function returns: call holds its result
Return(result) == [f \in DOMAIN call \cup {"result"} |->
                     IF f = "result" THEN result ELSE IF f = "done" THEN TRUE ELSE call[f]]

CallValidateAirportCode ==
    /\ call.fn = "ValidateAirportCode" /\ ~call.done
    /\ call' = Return(ValidateAirportCode(call.code))
    /\ UNCHANGED <<store, clock, inflight, nreq, last, cancels, lastWrite>>

CallNewFlightTicket ==
    /\ call.fn = "NewFlightTicket" /\ ~call.done
    /\ \E now \in Nows, draws \in IdDraws, fdraw \in FlightDraws :
          call' = Return(NewFlightTicket(call.origin, call.destination, call.departureDate,
                                         call.departureTime, call.flightNumber, call.passengers,
                                         now, draws, fdraw))
    /\ UNCHANGED <<store, clock, inflight, nreq, last, cancels, lastWrite>>

CallGenerateFlightNumber ==
    /\ call.fn = "GenerateFlightNumber" /\ ~call.done
    /\ \E fdraw \in FlightDraws : call' = Return(GenerateFlightNumber(call.airlineCode, fdraw))
    /\ UNCHANGED <<store, clock, inflight, nreq, last, cancels, lastWrite>>

NextModels ==
    \/ CallValidateAirportCode
    \/ CallNewFlightTicket
    \/ CallGenerateFlightNumber

ModelsSpec == InitModels /\ [][NextModels]_vars

-----------------------------------------------------------------------------
(* Properties. *)

Stored == {store[k] : k \in DOMAIN store}

Handled == BagToSet(inflight)

\* a string of exactly three letters A-Z
ThreeUpperLetters(code) == Len(code) = 3 /\ \A i \in DOMAIN code : IsUpperLetter(code[i])

\* two letters A-Z followed by three or four digits
AirlineFormat(fn) ==
    /\ Len(fn) \in {5, 6}
    /\ IsUpperLetter(fn[1]) /\ IsUpperLetter(fn[2])
    /\ \A i \in 3..Len(fn) : IsDigit(fn[i])

\* C1: the origin and the destination of every stored ticket are each exactly
\* three uppercase letters A-Z.
C1_AirportCodesAreLetters ==
    \A t \in Stored : ThreeUpperLetters(t.origin) /\ ThreeUpperLetters(t.destination)

\* C2: every stored ticket has passengers >= 1; a create request with
\* passengers <= 0 is answered 400, and no update stages passengers <= 0.
C2_PassengersPositive ==
    /\ \A t \in Stored : t.passengers >= 1
    /\ \A h \in Handled : "passengers" \in DOMAIN h.updates => h.updates.passengers >= 1
    /\ (last.op = "create" /\ last.req.json /\ last.req.passengers <= 0) => last.code = 400

\* C2 witness: an update that came with passengers = -1 and another field has
\* been written to a stored ticket and answered 200.
C2_Witness ==
    /\ last.op = "update" /\ last.code = 200
    /\ last.req.passengers = -1
    /\ last.id \in DOMAIN store

\* C3: the status of every stored ticket is CONFIRMED, PENDING or CANCELLED;
\* the ticket is CONFIRMED when create answers 201; an update whose status is
\* non-empty and none of the three is answered 400.
C3_StatusEnumerated ==
    /\ \A t \in Stored : t.status \in StatusValues
    /\ (last.op = "create" /\ last.code = 201) => store[last.id].status = "CONFIRMED"
    /\ (last.op = "update" /\ last.req.json /\ last.req.status \notin StatusValues \cup {""})
          => last.code = 400

\* C3 witness: an update of a stored ticket with a valid origin and the status
\* INVALID has been answered 400.
C3_Witness ==
    /\ last.op = "update" /\ last.code = 400 /\ last.err = "Invalid status"
    /\ last.req.origin # <<>>
    /\ last.id \in DOMAIN store

\* C4: updated_at >= created_at for every stored ticket.
C4_UpdatedNotBeforeCreated ==
    \A t \in Stored : t.updated_at >= t.created_at

IdChar(c) == IsUpperLetter(c) \/ IsDigit(c)

\* C5: the confirmation_id of every ticket create produces is generated by
\* the service (the request has no such field) and is exactly 6 characters,
\* each of A-Z or 0-9, whatever the random source returns.
C5_ConfirmationIdFormat ==
    /\ \A n \in Intn(Len(charset)) : IdChar(charset[n + 1])
    /\ \A h \in Handled : h.op = "create" =>
          /\ "confirmation_id" \notin DOMAIN h.req
          /\ Len(h.ticket.confirmation_id) = 6
          /\ \A i \in DOMAIN h.ticket.confirmation_id : IdChar(h.ticket.confirmation_id[i])
    /\ (last.op = "create" /\ last.code = 201) =>
          /\ Len(last.body.confirmation_id) = 6
          /\ \A i \in DOMAIN last.body.confirmation_id : IdChar(last.body.confirmation_id[i])
    /\ \A t \in Stored :
          /\ Len(t.confirmation_id) = 6
          /\ \A i \in DOMAIN t.confirmation_id : IdChar(t.confirmation_id[i])

\* C5 witness: create has answered 201 with a ticket.
C5_Witness ==
    /\ last.op = "create" /\ last.code = 201
    /\ last.body.confirmation_id \in DOMAIN store

\* C6: confirmation ids are unique: a create that answers 201 returns an id
\* under which no ticket was stored before.
C6_ConfirmationIdsUnique ==
    [][(last'.op = "create" /\ last'.code = 201) => last'.id \notin DOMAIN store]_vars

\* C7: the confirmation_id field of each stored record equals the key it is
\* stored under, and no update or cancel stages confirmation_id.
C7_ConfirmationIdIsKey ==
    /\ \A k \in DOMAIN store : store[k].confirmation_id = k
    /\ \A h \in Handled : "confirmation_id" \notin DOMAIN h.updates

\* C7 witness: an update has been written to a stored ticket and answered 200
\* with the ticket read back under the same id.
C7_Witness ==
    /\ last.op = "update" /\ last.code = 200
    /\ last.id \in DOMAIN store
    /\ last.body.confirmation_id = last.id

\* C8: once a record exists under a confirmation_id, no step changes the
\* created_at stored under it.
C8_CreatedAtSetOnce ==
    [][\A k \in DOMAIN store : k \in DOMAIN store' /\ store'[k].created_at = store[k].created_at]_vars

\* C9: the flight_number of every stored ticket is two uppercase letters
\* followed by three or four digits.
C9_FlightNumberFormat ==
    \A t \in Stored : AirlineFormat(t.flight_number)

\* C10: a create or update request answered 400 writes nothing: the store
\* after the step that rejects it equals the store before.
C10_RejectedWritesNothing ==
    [][(last'.op \in {"create", "update"} /\ last'.code = 400) => store' = store]_vars

\* C10 witness: an update of a stored ticket that staged its origin has been
\* rejected for its status.
C10_Witness ==
    /\ last.op = "update" /\ last.code = 400 /\ last.err = "Invalid status"
    /\ ValidateAirportCode(last.req.origin)
    /\ last.id \in DOMAIN store
    /\ store[last.id].origin # last.req.origin

\* a create request with an empty required field or passengers <= 0
MissingRequired(req) ==
    \/ req.origin = <<>> \/ req.destination = <<>>
    \/ req.departure_date = <<>> \/ req.departure_time = <<>>
    \/ req.passengers <= 0

\* C11: a create request with an empty origin, destination, departure_date or
\* departure_time, or with passengers <= 0, is answered 400 "Missing required
\* fields", whatever its date, time and airport codes are, and no ticket is
\* built for it.
C11_MissingFieldsRejectedFirst ==
    /\ (last.op = "create" /\ last.req.json /\ MissingRequired(last.req))
          => (last.code = 400 /\ last.err = "Missing required fields")
    /\ \A h \in Handled : h.op = "create" => ~MissingRequired(h.req)

\* C11 witness: a create request with passengers = 0, a date that does not
\* parse and a lowercase origin has been answered "Missing required fields".
C11_Witness ==
    /\ last.op = "create" /\ last.err = "Missing required fields"
    /\ last.req.passengers = 0
    /\ ~ParseDate(last.req.departure_date).ok
    /\ ~ValidateAirportCode(last.req.origin)

\* the fields an update request names: its non-empty strings, passengers when
\* > 0, and updated_at
WrittenFields(req) ==
    {f \in {"origin", "destination", "departure_date", "departure_time", "flight_number"} :
        req[f] # <<>>}
    \cup (IF req.status # "" THEN {"status"} ELSE {})
    \cup (IF req.passengers > 0 THEN {"passengers"} ELSE {})
    \cup {"updated_at"}

\* the step is the Firestore write of the update h
IsUpdateWriteOf(h) ==
    /\ h.op = "update" /\ h.pc = "write"
    /\ CopiesIn(h, inflight') < CopiesIn(h, inflight)
    /\ CopiesIn([h EXCEPT !.pc = "read"], inflight') > CopiesIn([h EXCEPT !.pc = "read"], inflight)

\* C12: the Firestore write of an accepted update writes exactly the fields
\* the request names (non-empty strings, passengers iff > 0) and updated_at,
\* with the request's values, and changes no other field of any ticket.
C12_UpdateWritesNamedFields ==
    [][\A h \in BagToSet(inflight) : IsUpdateWriteOf(h) =>
          /\ DOMAIN h.updates = WrittenFields(h.req)
          /\ \A f \in WrittenFields(h.req) \cap {"origin", "destination", "flight_number", "passengers", "status"} :
                store'[h.id][f] = h.req[f]
          /\ \A k \in DOMAIN store : \A f \in DOMAIN store[k] :
                (k # h.id \/ f \notin WrittenFields(h.req)) => store'[k][f] = store[k][f]]_vars

\* C12 witness: an update with passengers = 3 and nothing else has been
\* written to a stored ticket, which now has 3 passengers, and answered 200.
C12_Witness ==
    /\ last.op = "update" /\ last.code = 200
    /\ last.req = [UpdateBase EXCEPT !.passengers = 3]
    /\ store[last.id].passengers = 3
    /\ store[last.id].flight_number = CreateBase.flight_number

\* an update request that names no field
NothingStaged(req) ==
    /\ req.origin = <<>> /\ req.destination = <<>> /\ req.departure_date = <<>>
    /\ req.departure_time = <<>> /\ req.flight_number = <<>>
    /\ req.status = "" /\ req.passengers <= 0

\* C13: an update request that names no field (all strings empty and
\* passengers <= 0) is answered 400 "No fields to update" at once and writes
\* nothing: it never reaches the Firestore write that would set updated_at.
C13_NothingToUpdate ==
    [][/\ (last'.op = "update" /\ last'.id # <<>> /\ last'.req.json /\ NothingStaged(last'.req))
            => (last'.code = 400 /\ last'.err = "No fields to update" /\ store' = store)
       /\ \A h \in BagToSet(inflight') : h.op = "update" => ~NothingStaged(h.req)]_vars

\* C13 witness: an update of a stored ticket with passengers = -1 and nothing
\* else has been answered "No fields to update".
C13_Witness ==
    /\ last.op = "update" /\ last.err = "No fields to update"
    /\ last.req = [UpdateBase EXCEPT !.passengers = -1]
    /\ last.id \in DOMAIN store

\* the error of each field of an update request taken alone, in the order
\* origin, destination, departure_date, departure_time, flight_number,
\* passengers, status ("" for a field that is absent or valid)
FieldErrors(req) ==
    << IF req.origin # <<>> /\ ~ValidateAirportCode(req.origin)
       THEN "Invalid origin airport code" ELSE "",
       IF req.destination # <<>> /\ ~ValidateAirportCode(req.destination)
       THEN "Invalid destination airport code" ELSE "",
       IF req.departure_date # <<>> /\ ~ParseDate(req.departure_date).ok
       THEN "Invalid departure_date format" ELSE "",
       IF req.departure_time # <<>> /\ ~ParseTime(req.departure_time).ok
       THEN "Invalid departure_time format" ELSE "",
       "",
       "",
       IF req.status \notin StatusValues \cup {""} THEN "Invalid status" ELSE "" >>

InvalidFields(req) == {i \in DOMAIN FieldErrors(req) : FieldErrors(req)[i] # ""}

\* C14: an update request with invalid fields is answered 400 with the error
\* of the first of them in the order origin, destination, departure_date,
\* departure_time, flight_number, passengers, status, whatever the later
\* fields are; no request with an invalid field goes on to the write.
C14_FirstInvalidFieldReported ==
    /\ (last.op = "update" /\ last.id # <<>> /\ last.req.json /\ InvalidFields(last.req) # {})
          => /\ last.code = 400
             /\ last.err = FieldErrors(last.req)[CHOOSE i \in InvalidFields(last.req) :
                                                    \A j \in InvalidFields(last.req) : i <= j]
    /\ \A h \in Handled : h.op = "update" => InvalidFields(h.req) = {}

\* C14 witness: an update with an invalid departure_time, a flight_number, a
\* negative passengers and an invalid status has been answered with the
\* error of the departure_time.
C14_Witness ==
    /\ last.op = "update" /\ last.err = "Invalid departure_time format"
    /\ last.req.status = "INVALID" /\ last.req.flight_number # <<>>
    /\ last.id \in DOMAIN store

\* C15: no step removes a record; a cancel answered 200 has written exactly
\* status = CANCELLED and updated_at (the instant the cancel read) to the
\* ticket, which stays stored with every other field as it was; and a get
\* answered 200 returns the record as it is stored.
C15_CancelIsSoftDelete ==
    [][/\ DOMAIN store \subseteq DOMAIN store'
       /\ (last'.op = "delete" /\ last'.code = 200) =>
             /\ last'.id \in DOMAIN store'
             /\ store'[last'.id].status = "CANCELLED"
             /\ \E h \in BagToSet(inflight) :
                   /\ h.op = "delete" /\ h.id = last'.id
                   /\ h.updates.status = "CANCELLED"
                   /\ DOMAIN h.updates = {"status", "updated_at"}
                   /\ store'[last'.id].updated_at = StoredTime(h.updates.updated_at)
             /\ \A k \in DOMAIN store : \A f \in DOMAIN store[k] :
                   (k # last'.id \/ f \notin {"status", "updated_at"}) => store'[k][f] = store[k][f]
       /\ (last'.op = "get" /\ last'.code = 200) => last'.body = store[last'.id]]_vars

\* C15 witness: a ticket cancelled with a 200 has then been read by a get,
\* which returned it with the status CANCELLED.
C15_Witness ==
    /\ last.op = "get" /\ last.code = 200
    /\ CopiesIn(last.id, cancels) >= 1
    /\ last.body.status = "CANCELLED"
    /\ last.body.origin = CreateBase.origin

\* C16: a cancel of a stored ticket that is CANCELLED already can succeed as
\* the first did (nothing in its way looks at the status); a cancel is only
\* ever answered 200 or with the storage error 500, and after a cancel
\* answered 200 the status is CANCELLED.
C16_CancelTwice ==
    /\ \A h \in Handled :
          (Quiet /\ h.op = "delete" /\ h.id \in DOMAIN store /\ store[h.id].status = "CANCELLED")
             => ENABLED DeleteWrite(h)
    /\ last.op = "delete" => last.code \in {200, 500}
    /\ (last.op = "delete" /\ last.code = 200) => store[last.id].status = "CANCELLED"

\* C16 witness: the second cancel of a ticket has been answered 200.
C16_Witness ==
    /\ last.op = "delete" /\ last.code = 200
    /\ CopiesIn(last.id, cancels) = 2
    /\ store[last.id].status = "CANCELLED"

\* C17 as claimed: when create answers 201, a get of the returned
\* confirmation_id, with no write in between, returns a record equal in every
\* field to the ticket the create returned.
C17_RoundTripEqual ==
    (last.op = "create" /\ last.code = 201)
       => (GetResponse(last.id, TRUE).code = 200 /\ GetResponse(last.id, TRUE).body = last.body)

\* C17 amended: the record the get returns equals the ticket the create
\* returned in every field but created_at and updated_at; these two are the
\* create's instants cut to the whole microsecond Firestore keeps (not later,
\* and less than a microsecond earlier).
C17_RoundTripUpToPrecision ==
    (last.op = "create" /\ last.code = 201) =>
       LET got == GetResponse(last.id, TRUE)
       IN  /\ got.code = 200
           /\ DOMAIN got.body = DOMAIN last.body
           /\ \A f \in DOMAIN last.body \ {"created_at", "updated_at"} : got.body[f] = last.body[f]
           /\ \A f \in {"created_at", "updated_at"} :
                 /\ got.body[f] <= last.body[f]
                 /\ last.body[f] - got.body[f] < TicksPerMicro
                 /\ got.body[f] % TicksPerMicro = 0

\* C17 witness: create has answered 201 with a created_at that is not a
\* whole microsecond, and a get returns the ticket with another created_at.
C17_Witness ==
    /\ last.op = "create" /\ last.code = 201
    /\ last.body.created_at % TicksPerMicro # 0
    /\ GetResponse(last.id, TRUE).body.created_at # last.body.created_at
    /\ GetResponse(last.id, TRUE).body.origin = last.body.origin

\* C18: an update request that passes validation and names a
\* confirmation_id with no stored record is answered 404 "Ticket not found",
\* as a get of that id is, and not with the storage error.
C18_UpdateUnknownIdNotFound ==
    (last.op = "update" /\ last.code # 400 /\ last.id \notin DOMAIN store)
       => (last.code = 404 /\ last.err = GetResponse(last.id, TRUE).err)

\* C19: ValidateAirportCode(code) is true exactly when code is three
\* uppercase letters A-Z.
C19_ValidateAirportCodeIffLetters ==
    (call.fn = "ValidateAirportCode" /\ call.done)
       => (call.result <=> ThreeUpperLetters(call.code))

\* C20: NewFlightTicket returns nil exactly when origin or destination
\* fails ValidateAirportCode; otherwise a ticket with all ten fields, the
\* origin, destination, passengers, departure date and time it was given,
\* the flight number it was given in uppercase (or AA and four digits when
\* given none), the status CONFIRMED, created_at = updated_at and a
\* confirmation_id of six characters.
C20_NewFlightTicket ==
    (call.fn = "NewFlightTicket" /\ call.done) =>
       LET t == call.result
       IN  /\ (t = Nil) <=> (~ValidateAirportCode(call.origin) \/ ~ValidateAirportCode(call.destination))
           /\ t # Nil =>
                 /\ DOMAIN t = {"confirmation_id", "origin", "destination", "departure_date",
                                "departure_time", "flight_number", "passengers", "created_at",
                                "updated_at", "status"}
                 /\ t.origin = call.origin /\ t.destination = call.destination
                 /\ t.passengers = call.passengers
                 /\ t.departure_date = call.departureDate
                 /\ t.departure_time = call.departureTime
                 /\ call.flightNumber # <<>> => t.flight_number = ToUpper(call.flightNumber)
                 /\ call.flightNumber = <<>> =>
                       /\ Len(t.flight_number) = 6
                       /\ SubSeq(t.flight_number, 1, 2) = <<"A", "A">>
                       /\ AllDigits(SubSeq(t.flight_number, 3, 6))
                 /\ t.status = "CONFIRMED"
                 /\ t.created_at = t.updated_at
                 /\ Len(t.confirmation_id) = 6

\* C20 witness: NewFlightTicket("JFK", "LAX", .., "ua567", 2) has returned
\* a ticket with the flight number UA567.
C20_Witness ==
    /\ call.fn = "NewFlightTicket" /\ call.done
    /\ call.result # Nil
    /\ call.flightNumber = <<"u","a","5","6","7">>
    /\ call.result.flight_number = <<"U","A","5","6","7">>

\* C21: for every airline code, GenerateFlightNumber returns two uppercase
\* letters followed by a number of 1000..9999; the letters are the code in
\* uppercase when it has two characters, and AA otherwise.
C21_GenerateFlightNumberFormat ==
    (call.fn = "GenerateFlightNumber" /\ call.done) =>
       /\ Len(call.result) = 6
       /\ IsUpperLetter(call.result[1]) /\ IsUpperLetter(call.result[2])
       /\ AllDigits(SubSeq(call.result, 3, 6))
       /\ Atoi(SubSeq(call.result, 3, 6)) \in 1000..9999
       /\ SubSeq(call.result, 1, 2) = IF Len(call.airlineCode) = 2
                                      THEN ToUpper(call.airlineCode) ELSE <<"A", "A">>

\* C22: a list answered 200 returns min(limit, N) of the N stored tickets,
\* each as it is stored and none twice, in descending order of created_at,
\* none of the tickets left out being created later than one returned, with
\* count the number returned; limit is the number the limit parameter
\* parses to when that is positive, and 50 otherwise.
C22_ListLatestFirst ==
    (last.op = "list" /\ last.code = 200) =>
       LET ts == last.body.tickets
           parsed == ParseInt(last.req.limit)
           limit == IF parsed.ok /\ parsed.n > 0 THEN parsed.n ELSE 50
           N == Cardinality(DOMAIN store)
       IN  /\ Len(ts) = IF limit < N THEN limit ELSE N
           /\ last.body.count = Len(ts)
           /\ \A i \in DOMAIN ts :
                 ts[i].confirmation_id \in DOMAIN store /\ ts[i] = store[ts[i].confirmation_id]
           /\ \A i, j \in DOMAIN ts :
                 /\ i < j => ts[i].created_at >= ts[j].created_at
                 /\ i # j => ts[i].confirmation_id # ts[j].confirmation_id
           /\ \A k \in DOMAIN store : \A i \in DOMAIN ts :
                 (\A j \in DOMAIN ts : ts[j].confirmation_id # k)
                    => store[k].created_at <= ts[i].created_at

\* C22 witness: with two tickets stored, created at different instants, a
\* list with limit=1 has returned one ticket, the later one.
C22_Witness ==
    /\ last.op = "list" /\ last.code = 200
    /\ last.req.limit = <<"1">>
    /\ last.body.count = 1
    /\ Cardinality(DOMAIN store) = 2
    /\ \E k \in DOMAIN store : store[k].created_at < last.body.tickets[1].created_at

\* the step admits the update h: UpdateTicket has filled its updates map
IsUpdateAdmitOf(h) ==
    /\ h.op = "update" /\ h.pc = "write"
    /\ CopiesIn(h, inflight') > CopiesIn(h, inflight)

SameDay(a, b) == a.y = b.y /\ a.m = b.m /\ a.d = b.d

\* C23: an update with a valid departure_time stages a departure_time with
\* the request's hour and minute; its date is the request's departure_date
\* when the request has one, and else the UTC date of an instant the clock
\* shows while the request is handled.
C23_DepartureTimeStaged ==
    [][\A h \in BagToSet(inflight') :
          (IsUpdateAdmitOf(h) /\ h.req.departure_time # <<>>) =>
             /\ "departure_time" \in DOMAIN h.updates
             /\ h.updates.departure_time.hh = ParseTime(h.req.departure_time).hh
             /\ h.updates.departure_time.mm = ParseTime(h.req.departure_time).mm
             /\ IF h.req.departure_date # <<>>
                THEN SameDay(h.updates.departure_time, ParseDate(h.req.departure_date))
                ELSE \E now \in clock..clock' :
                        SameDay(h.updates.departure_time, Today(now))]_vars

\* C23 witness: an update of a stored ticket with a departure_time and no
\* departure_date is being handled on the second day; the date staged is
\* that day, not the ticket's departure_date.
C23_Witness ==
    \E h \in Handled :
        /\ h.op = "update" /\ h.id \in DOMAIN store
        /\ h.req.departure_time # <<>> /\ h.req.departure_date = <<>>
        /\ h.updates.departure_time.d = 2
        /\ ~SameDay(h.updates.departure_time, store[h.id].departure_date)

\* the step is the Firestore write of the create h, answered 201
IsCreateSetOf(h) ==
    /\ h.op = "create" /\ h.pc = "set"
    /\ CopiesIn(h, inflight') < CopiesIn(h, inflight)
    /\ last'.op = "create" /\ last'.code = 201

\* C24: a create whose generated confirmation_id is the key of a stored
\* ticket is not held back (its Firestore write can be taken), and the write
\* answers 201 and puts the whole new ticket in the place of the stored one:
\* no field of the earlier record is kept, no other key changes.
C24_CreateOverwrites ==
    [][\A h \in BagToSet(inflight) :
          (h.op = "create" /\ h.pc = "set" /\ h.id \in DOMAIN store /\ Quiet) =>
             /\ ENABLED CreateSet(h)
             /\ IsCreateSetOf(h) =>
                   /\ last'.body = h.ticket
                   /\ store' = Put(store, h.id, StoredDoc(h.ticket))
                   /\ DOMAIN store' = DOMAIN store]_vars

\* C24 witness: a create has been answered 201 under the id ABC012 of the
\* ticket stored before; the record under that id is the new ticket, whose
\* generated flight number the earlier ticket (AA1234) did not have.
C24_Witness ==
    /\ last.op = "create" /\ last.code = 201
    /\ last.id = <<"A","B","C","0","1","2">>
    /\ last.req.flight_number = <<>>
    /\ DOMAIN store = {last.id}
    /\ store[last.id] = StoredDoc(last.body)
    /\ store[last.id].flight_number # <<"A","A","1","2","3","4">>

\* C25: an update or cancel of a confirmation_id with no stored record is
\* answered with an error and leaves the store as it is, and the set of
\* stored keys changes only by the key of a create answered 201.
C25_UnknownIdCreatesNothing ==
    [][/\ (last'.op \in {"update", "delete"} /\ last'.id \notin DOMAIN store)
             => (last'.code >= 400 /\ store' = store)
       /\ (DOMAIN store' # DOMAIN store)
             => /\ last'.op = "create" /\ last'.code = 201
                /\ DOMAIN store' = DOMAIN store \cup {last'.id}]_vars

\* C25 witness: an update that passed validation has been answered "Failed
\* to update ticket" for an id with no record, while another ticket is
\* stored; the id still has no record.
C25_Witness ==
    /\ last.op = "update" /\ last.code = 500 /\ last.err = "Failed to update ticket"
    /\ last.id \notin DOMAIN store
    /\ DOMAIN store # {}

\* the step is the re-read of the update h, answered 200
IsUpdateReadOf(h) ==
    /\ h.op = "update" /\ h.pc = "read"
    /\ CopiesIn(h, inflight') < CopiesIn(h, inflight)
    /\ last'.op = "update" /\ last'.code = 200

\* no other request has written the ticket of the update h since h's own
\* write: that write is the last one Firestore applied to the document
NoWriterSince(h) == h.id \in DOMAIN lastWrite /\ lastWrite[h.id] = Written(h)

\* C26: the ticket a successful update returns is the document as it is
\* stored when the handler reads it back, whatever request wrote it last;
\* when no other request has written the ticket since this update's write,
\* every field the update staged has in the response the value it wrote.
C26_UpdateReturnsReRead ==
    [][\A h \in BagToSet(inflight) : IsUpdateReadOf(h) =>
          /\ last'.body = store[h.id]
          /\ NoWriterSince(h) =>
                \A f \in DOMAIN h.updates : last'.body[f] = StoredValue(f, h.updates[f])]_vars

\* C26 witness: an update that staged the status PENDING has been answered
\* 200 with the status CANCELLED, which a cancel wrote between the update's
\* write and its re-read.
C26_Witness ==
    /\ last.op = "update" /\ last.code = 200
    /\ last.req.status = "PENDING"
    /\ last.body.status = "CANCELLED"
    /\ lastWrite[last.id].op = "delete"

\* C27: no step lowers the updated_at stored under a confirmation_id: each
\* write of an update or a cancel leaves it at or above the value stored
\* before.
C27_UpdatedAtNeverDecreases ==
    [][\A h \in BagToSet(inflight) :
          (h.op \in {"update", "delete"} /\ h.pc = "write" /\ h.id \in DOMAIN store
              /\ CopiesIn(h, inflight') < CopiesIn(h, inflight) /\ store' # store)
            => store'[h.id].updated_at >= store[h.id].updated_at]_vars

\* C28: the departure_time of every stored ticket falls on the ticket's
\* departure_date.
C28_DepartureTimeOnDepartureDate ==
    \A t \in Stored : SameDay(t.departure_time, t.departure_date)

\* C29: a step that answers an update with an error leaves the store as it
\* is, and the update it answers has not written to Firestore before (it is
\* not at its re-read).
C29_FailedUpdateWritesNothing ==
    [][(last'.op = "update" /\ last'.code >= 400) =>
          /\ store' = store
          /\ \A h \in BagToSet(inflight) :
                (h.op = "update" /\ CopiesIn(h, inflight') < CopiesIn(h, inflight))
                   => h.pc # "read"]_vars

\* the fields of the caller in an updates map
CallerFields(updates) == DOMAIN updates \ {"updated_at"}

\* C30: when Firestore applies the write of an update to a ticket whose
\* last write was another update naming none of the same caller fields, the
\* ticket holds afterwards the values of both for every field they named.
C30_NoLostUpdate ==
    [][\A h \in BagToSet(inflight) :
          (IsUpdateWriteOf(h) /\ h.id \in DOMAIN lastWrite
              /\ lastWrite[h.id].op = "update"
              /\ CallerFields(lastWrite[h.id].updates) \cap CallerFields(h.updates) = {})
            => /\ \A f \in CallerFields(h.updates) :
                     store'[h.id][f] = StoredValue(f, h.updates[f])
               /\ \A f \in CallerFields(lastWrite[h.id].updates) :
                     store'[h.id][f] = StoredValue(f, lastWrite[h.id].updates[f])]_vars

\* C30 witness: an update of the passengers and an update of the status of
\* the same ticket have both written and neither has read the ticket back;
\* the ticket has 3 passengers and the status PENDING.
C30_Witness ==
    \E h1, h2 \in Handled :
        /\ h1.pc = "read" /\ h2.pc = "read" /\ h1.id = h2.id
        /\ CallerFields(h1.updates) = {"passengers"}
        /\ CallerFields(h2.updates) = {"status"}
        /\ h1.id \in DOMAIN store
        /\ store[h1.id].passengers = 3 /\ store[h1.id].status = "PENDING"

====
